---- MODULE Spec2Model ----
(***************************************************************************)
(* The data-exporter service of power-aware-module: the ingest task        *)
(* (main's reconnect loop around listen), the Measurement Registry         *)
(* (AllMeasurements), the three-phase rollup (AllThreePhase), the sliding  *)
(* window (Bucket) and the exported gauges.  With it, the two services     *)
(* at the ends of the same wire: data-replay, which groups the rows of a   *)
(* CSV file into frames and publishes them, and data-db, which turns each  *)
(* frame it decodes into one JSON document and inserts it.                 *)
(*                                                                         *)
(* Numbers: samples are f32 on the wire and f64 in a Bucket; `as f64` is   *)
(* exact, and the model's samples are small integers, for which f32 and    *)
(* f64 sums are exact.  A reducer's output is a value of the shape         *)
(* [t, n, d]: the rational n/d (t = "num"), or one of the f64 specials.    *)
(***************************************************************************)
EXTENDS Integers, Sequences, FiniteSets, TLC

VARIABLES
    pc,          \* where the ingest task is: start, recv, dispatch, sleep, crashed
    data,        \* AllMeasurements.data of the running listen call
    map,         \* AllThreePhase.map of the running listen call
    gauges,      \* the per-stream GaugeVecs: <<stream, phase>> -> channel -> statistics
    gauges3,     \* the three-phase GaugeVecs: <<label, phase>> -> real/reactive -> statistics
    msg_count,   \* listen's message counter
    frame,       \* joined.calculations of the frame being dispatched
    idx,         \* position of the for loop in frame (1-based)
    totals,      \* the four three_phase_* running sums
    combined,    \* history: calls of apply_and_update since the frame was decoded
    preData,     \* history: data when the frame in hand was decoded
    preMap,      \* history: map when the frame in hand was decoded
    received,    \* history: messages received by the process so far
    reconnects,  \* history: transport failures so far
    saved,       \* history: data and map at the last receive failure
    delivered,   \* history: per stream, the two-phase products dispatched so far
    response,    \* what metrics_handler returned last
    seen,        \* history: names of the entries dispatched by the running listen call
    framesDecoded,   \* history: frames decoded by the running listen call
    bkt,         \* a Bucket driven on its own (SpecBucket)
    pushed,      \* history: every value pushed into bkt, in order
    \* data-replay
    rpc,             \* where main is: read, publish, idle, exited
    current_frame,   \* stream name -> (phase_a row, phase_b row) of the group
    last_timestamp,  \* time of the row read last
    frames,          \* the frames built so far
    frame_count,     \* the sequence number of the next frame
    sent,            \* history: the frames published so far
    rows,            \* history: every row read, in order
    \* data-db
    dbpc,            \* where the storage writer is: recv, exited
    inserts,         \* history: every INSERT attempted, with its outcome
    decoded,         \* history: every frame that decoded, in arrival order
    dbReceived       \* history: messages received by the storage writer

exporterVars ==
    <<pc, data, map, gauges, gauges3, msg_count, frame, idx, totals, combined,
      preData, preMap, received, reconnects, saved, delivered, response, seen,
      framesDecoded>>

bucketVars == <<bkt, pushed>>

replayVars ==
    <<rpc, current_frame, last_timestamp, frames, frame_count, sent, rows>>

dbVars == <<dbpc, inserts, decoded, dbReceived>>

vars == <<exporterVars, bucketVars, replayVars, dbVars>>

----------------------------------------------------------------------------
(* Bounds of the model *)

\* VecDeque::with_capacity(60 * 5): the window size, scaled down.
Capacity == 2
\* Messages the process receives.
MaxMsgs == 3
\* Transport failures in one run of the process.
MaxReconnects == 1
\* Pushes into the stand-alone Bucket.
MaxPushes == 4

----------------------------------------------------------------------------
(* Option<T>: None is the empty sequence, Some(x) the one-element sequence *)

None == <<>>
Some(x) == <<x>>
IsSome(o) == o # <<>>
Unwrap(o) == o[1]

\* prost's getter of an optional scalar: the value, or the default 0.0
Get(o) == IF IsSome(o) THEN o[1] ELSE 0

Put(f, k, v) == [x \in (DOMAIN f) \cup {k} |-> IF x = k THEN v ELSE f[x]]

Min(a, b) == IF a < b THEN a ELSE b

\* the last n elements of s, oldest first
LastN(s, n) == SubSeq(s, Len(s) - n + 1, Len(s))

----------------------------------------------------------------------------
(* f64 results of the reducers *)

Num(v) == [t |-> "num", n |-> v, d |-> 1]
F64_MIN == [t |-> "f64::MIN", n |-> 0, d |-> 1]
F64_MAX == [t |-> "f64::MAX", n |-> 0, d |-> 1]
NaN == [t |-> "NaN", n |-> 0, d |-> 1]

Abs(x) == IF x < 0 THEN -x ELSE x

RECURSIVE Gcd(_, _)
Gcd(a, b) == IF b = 0 THEN a ELSE Gcd(b, a % b)

\* a slip: a guard that turns the empty quotient into 0.0
DivGuarded(sum, len) ==
    IF len = 0 THEN Num(0)
    ELSE LET g == Gcd(Abs(sum), len)
         IN  [t |-> "num", n |-> sum \div g, d |-> len \div g]

\* sum / len as f64: 0.0 / 0.0 is NaN; otherwise the quotient, in lowest terms
Div(sum, len) ==
    IF len = 0 THEN NaN
    ELSE LET g == Gcd(Abs(sum), len)
         IN  [t |-> "num", n |-> sum \div g, d |-> len \div g]

----------------------------------------------------------------------------
(* Bucket *)

BucketDefault == <<>>

\* a slip: pop_back in place of pop_front
BucketApplyPopBack(values, val) ==
    LET kept == IF Len(values) = Capacity
                THEN SubSeq(values, 1, Len(values) - 1)
                ELSE values
    IN  Append(kept, val)

\* a slip: the length test off by one, so a full window is never trimmed
BucketApplyNoEvict(values, val) ==
    LET kept == IF Len(values) = Capacity + 1 THEN Tail(values) ELSE values
    IN  Append(kept, val)

BucketApply(values, val) ==
    LET kept == IF Len(values) = Capacity THEN Tail(values) ELSE values
    IN  Append(kept, val)

\* fold(f64::MIN, |acc, v| if *v > acc { *v } else { acc })
RECURSIVE PeakFold(_, _)
PeakFold(acc, values) ==
    IF values = <<>> THEN acc
    ELSE LET v == Head(values)
             gt == acc.t = "f64::MIN" \/ (acc.t = "num" /\ v > acc.n)
         IN  PeakFold(IF gt THEN Num(v) ELSE acc, Tail(values))

Peak(values) == PeakFold(F64_MIN, values)

\* fold(f64::MAX, |acc, v| if *v < acc { *v } else { acc })
RECURSIVE TroughFold(_, _)
TroughFold(acc, values) ==
    IF values = <<>> THEN acc
    ELSE LET v == Head(values)
             lt == acc.t = "f64::MAX" \/ (acc.t = "num" /\ v < acc.n)
         IN  TroughFold(IF lt THEN Num(v) ELSE acc, Tail(values))

Trough(values) == TroughFold(F64_MAX, values)

RECURSIVE SumSeq(_)
SumSeq(values) == IF values = <<>> THEN 0 ELSE Head(values) + SumSeq(Tail(values))

Average(values) == Div(SumSeq(values), Len(values))

\* a slip: the front of the deque in place of its back
LatestFront(values) == IF values = <<>> THEN Num(0) ELSE Num(values[1])

\* iter().last().unwrap_or_default()
Latest(values) == IF values = <<>> THEN Num(0) ELSE Num(values[Len(values)])

Stats(values) ==
    [average |-> Average(values), latest |-> Latest(values),
     peak |-> Peak(values), trough |-> Trough(values)]

----------------------------------------------------------------------------
(* The decoded frame: CompositeJoinedCalculations and what it contains *)

Names == {"s1", "s2"}

\* config.zmq_subscription
Topic == "topic"

WaveformCalculations(rms, dc_offset) ==
    [rms |-> Some(rms), dc_offset |-> Some(dc_offset)]

PowerCalculations(real, apparent, reactive, pf) ==
    [real_power_w |-> Some(real), apparent_power_va |-> Some(apparent),
     reactive_power_var |-> Some(reactive), power_factor |-> Some(pf)]

\* a CompositeCalculations whose eight scalars are all different
Sample(k) ==
    [voltage_waveform_calculations_v |-> Some(WaveformCalculations(10 * k + 1, 10 * k + 2)),
     current_waveform_calculations_a |-> Some(WaveformCalculations(10 * k + 3, 10 * k + 4)),
     power_calculations |-> Some(PowerCalculations(10 * k + 8, 10 * k + 5, 10 * k + 7, 10 * k + 6))]

\* DataProduct::Calculations(CompositeTwoPhaseCalculations)
Calculations(a, b) == [kind |-> "Calculations", phase_a |-> a, phase_b |-> b]

\* any other variant of the DataProduct oneof
OtherProduct == [kind |-> "Other", phase_a |-> None, phase_b |-> None]

\* CompositeJoinedCalculationsWrapper
Wrapper(name, product) == [calculation_name |-> name, data_product |-> product]

TP1 == Calculations(Some(Sample(1)), Some(Sample(2)))
TP2 == Calculations(Some(Sample(3)), Some(Sample(4)))

A1 == Wrapper(Some("s1"), Some(TP1))
A2 == Wrapper(Some("s1"), Some(TP2))
Ao == Wrapper(Some("s1"), Some(OtherProduct))
B1 == Wrapper(Some("s2"), Some(TP1))
B2 == Wrapper(Some("s2"), Some(TP2))
Bo == Wrapper(Some("s2"), Some(OtherProduct))

\* frames whose entries have every field the exporter unwraps: no entry, one
\* entry, two streams, one stream twice, another variant before or after a
\* two-phase entry of the same stream, three entries
ValidFrames ==
    { <<>>, <<A1>>, <<A2>>, <<B2>>, <<Bo>>,
      <<A1, B2>>, <<A2, A1>>, <<Bo, B1>>, <<A1, Ao>>, <<A2, Bo, B1>> }

NoVoltage == [Sample(1) EXCEPT !.voltage_waveform_calculations_v = None]
NoCurrent == [Sample(1) EXCEPT !.current_waveform_calculations_a = None]
NoPower == [Sample(2) EXCEPT !.power_calculations = None]

\* entries with a field absent that the exporter unwraps
MalformedEntries ==
    { Wrapper(None, Some(TP1)),
      Wrapper(Some("s1"), None),
      Wrapper(Some("s1"), Some(Calculations(None, Some(Sample(2))))),
      Wrapper(Some("s1"), Some(Calculations(Some(Sample(1)), None))),
      Wrapper(Some("s2"), Some(Calculations(Some(NoVoltage), Some(Sample(2))))),
      Wrapper(Some("s2"), Some(Calculations(Some(NoCurrent), Some(Sample(2))))),
      Wrapper(Some("s2"), Some(Calculations(Some(Sample(1)), Some(NoPower)))) }

\* a malformed entry alone, after a well-formed entry, before one
MalformedFrames ==
    {<<m>> : m \in MalformedEntries} \cup {<<A1, m>> : m \in MalformedEntries}
        \cup {<<m, B2>> : m \in MalformedEntries}

Frames == ValidFrames \cup MalformedFrames

IsTwoPhase(entry) ==
    IsSome(entry.data_product) /\ Unwrap(entry.data_product).kind = "Calculations"

----------------------------------------------------------------------------
(* MeasurementBuckets, ConjoinedMeasurements, AllMeasurements *)

Channels ==
    {"real_power", "rms_current", "rms_voltage", "apparent_power", "active_power",
     "reactive_power", "power_factor", "dc_offset_current", "dc_offset_voltage"}

Phases == {"a", "b"}

MeasurementBucketsDefault == [c \in Channels |-> BucketDefault]

\* the unwraps of MeasurementBuckets::apply
MeasurementBucketsApplyPanics(calcs) ==
    \/ ~IsSome(calcs.current_waveform_calculations_a)
    \/ ~IsSome(calcs.voltage_waveform_calculations_v)
    \/ ~IsSome(calcs.power_calculations)

\* a slip: the push into power_factor left out
MeasurementBucketsApplySkipsPowerFactor(self, calcs) ==
    LET i == Unwrap(calcs.current_waveform_calculations_a)
        v == Unwrap(calcs.voltage_waveform_calculations_v)
        p == Unwrap(calcs.power_calculations)
    IN  [dc_offset_current |-> BucketApply(self.dc_offset_current, Get(i.dc_offset)),
         rms_current       |-> BucketApply(self.rms_current, Get(i.rms)),
         dc_offset_voltage |-> BucketApply(self.dc_offset_voltage, Get(v.dc_offset)),
         rms_voltage       |-> BucketApply(self.rms_voltage, Get(v.rms)),
         apparent_power    |-> BucketApply(self.apparent_power, Get(p.apparent_power_va)),
         power_factor      |-> self.power_factor,
         reactive_power    |-> BucketApply(self.reactive_power, Get(p.reactive_power_var)),
         real_power        |-> BucketApply(self.real_power, Get(p.real_power_w)),
         active_power      |-> BucketApply(self.active_power, Get(p.real_power_w))]

\* a slip: active_power fed from apparent_power_va
MeasurementBucketsApplyActiveFromApparent(self, calcs) ==
    LET i == Unwrap(calcs.current_waveform_calculations_a)
        v == Unwrap(calcs.voltage_waveform_calculations_v)
        p == Unwrap(calcs.power_calculations)
    IN  [dc_offset_current |-> BucketApply(self.dc_offset_current, Get(i.dc_offset)),
         rms_current       |-> BucketApply(self.rms_current, Get(i.rms)),
         dc_offset_voltage |-> BucketApply(self.dc_offset_voltage, Get(v.dc_offset)),
         rms_voltage       |-> BucketApply(self.rms_voltage, Get(v.rms)),
         apparent_power    |-> BucketApply(self.apparent_power, Get(p.apparent_power_va)),
         power_factor      |-> BucketApply(self.power_factor, Get(p.power_factor)),
         reactive_power    |-> BucketApply(self.reactive_power, Get(p.reactive_power_var)),
         real_power        |-> BucketApply(self.real_power, Get(p.real_power_w)),
         active_power      |-> BucketApply(self.active_power, Get(p.apparent_power_va))]

MeasurementBucketsApply(self, calcs) ==
    LET i == Unwrap(calcs.current_waveform_calculations_a)
        v == Unwrap(calcs.voltage_waveform_calculations_v)
        p == Unwrap(calcs.power_calculations)
    IN  [dc_offset_current |-> BucketApply(self.dc_offset_current, Get(i.dc_offset)),
         rms_current       |-> BucketApply(self.rms_current, Get(i.rms)),
         dc_offset_voltage |-> BucketApply(self.dc_offset_voltage, Get(v.dc_offset)),
         rms_voltage       |-> BucketApply(self.rms_voltage, Get(v.rms)),
         apparent_power    |-> BucketApply(self.apparent_power, Get(p.apparent_power_va)),
         power_factor      |-> BucketApply(self.power_factor, Get(p.power_factor)),
         reactive_power    |-> BucketApply(self.reactive_power, Get(p.reactive_power_var)),
         real_power        |-> BucketApply(self.real_power, Get(p.real_power_w)),
         active_power      |-> BucketApply(self.active_power, Get(p.real_power_w))]

\* a slip: the stream label dropped, every stream's gauges of the phase set
MeasurementBucketsUpdateAllStreams(g, self, stream, phase) ==
    [key \in (DOMAIN g) \cup {<<stream, phase>>} |->
        IF key[2] = phase THEN [c \in Channels |-> Stats(self[c])] ELSE g[key]]

\* the 36 gauges of one (stream, phase)
MeasurementBucketsUpdate(g, self, stream, phase) ==
    Put(g, <<stream, phase>>, [c \in Channels |-> Stats(self[c])])

ConjoinedDefault ==
    [phase_a |-> MeasurementBucketsDefault, phase_b |-> MeasurementBucketsDefault]

ConjoinedApplyPanics(calcs) ==
    IF ~IsSome(calcs.phase_a) THEN TRUE
    ELSE IF MeasurementBucketsApplyPanics(Unwrap(calcs.phase_a)) THEN TRUE
    ELSE IF ~IsSome(calcs.phase_b) THEN TRUE
    ELSE MeasurementBucketsApplyPanics(Unwrap(calcs.phase_b))

\* a slip: phase_b's calculations pushed into phase_a's buckets
ConjoinedApplyBothIntoA(self, calcs) ==
    [phase_a |-> MeasurementBucketsApply(
                     MeasurementBucketsApply(self.phase_a, Unwrap(calcs.phase_a)),
                     Unwrap(calcs.phase_b)),
     phase_b |-> self.phase_b]

ConjoinedApply(self, calcs) ==
    [phase_a |-> MeasurementBucketsApply(self.phase_a, Unwrap(calcs.phase_a)),
     phase_b |-> MeasurementBucketsApply(self.phase_b, Unwrap(calcs.phase_b))]

ConjoinedUpdate(g, self, name) ==
    MeasurementBucketsUpdate(
        MeasurementBucketsUpdate(g, self.phase_a, name, "a"), self.phase_b, name, "b")

\* AllMeasurements::new: an empty HashMap
AllMeasurementsNew == [n \in {} |-> ConjoinedDefault]

\* a slip: insert in place of entry().or_insert(), which replaces the pair
EntryInsertFresh(d, name) == ConjoinedDefault

\* self.data.entry(name).or_insert(ConjoinedMeasurements::default())
EntryOrInsert(d, name) == IF name \in DOMAIN d THEN d[name] ELSE ConjoinedDefault

AllMeasurementsApplyPanics(product) ==
    IF product.kind # "Calculations" THEN FALSE ELSE ConjoinedApplyPanics(product)

\* a slip: the variant test dropped, every product treated as two-phase
AllMeasurementsApplyAnyProduct(d, name, product) ==
    LET calcs == IF product.kind = "Calculations" THEN product ELSE TP1
    IN  Put(d, name, ConjoinedApply(EntryOrInsert(d, name), calcs))

AllMeasurementsApply(d, name, product) ==
    IF product.kind # "Calculations" THEN d
    ELSE Put(d, name, ConjoinedApply(EntryOrInsert(d, name), product))

\* AllMeasurements::update, its effect on self.data
AllMeasurementsUpdateData(d, name) ==
    IF name \in DOMAIN d THEN d ELSE Put(d, name, ConjoinedDefault)

\* a slip: the pair inserted on a miss is exported at once
AllMeasurementsUpdateGaugesOnMiss(g, d, name) ==
    IF name \in DOMAIN d THEN ConjoinedUpdate(g, d[name], name)
    ELSE ConjoinedUpdate(g, ConjoinedDefault, name)

\* AllMeasurements::update, its effect on the gauges
AllMeasurementsUpdateGauges(g, d, name) ==
    IF name \in DOMAIN d THEN ConjoinedUpdate(g, d[name], name) ELSE g

----------------------------------------------------------------------------
(* ThreePhaseMeasurements, AllThreePhase *)

Rollups == {"three_phase_real_a", "three_phase_real_b",
            "three_phase_reactive_a", "three_phase_reactive_b"}

ThreePhaseDefault == [r \in Rollups |-> BucketDefault]

\* a slip: the push into three_phase_reactive_b left out
ThreePhaseApplySkipsReactiveB(self, real_a, reactive_a, real_b, reactive_b) ==
    [three_phase_real_a     |-> BucketApply(self.three_phase_real_a, real_a),
     three_phase_real_b     |-> BucketApply(self.three_phase_real_b, real_b),
     three_phase_reactive_a |-> BucketApply(self.three_phase_reactive_a, reactive_a),
     three_phase_reactive_b |-> self.three_phase_reactive_b]

ThreePhaseApply(self, real_a, reactive_a, real_b, reactive_b) ==
    [three_phase_real_a     |-> BucketApply(self.three_phase_real_a, real_a),
     three_phase_real_b     |-> BucketApply(self.three_phase_real_b, real_b),
     three_phase_reactive_a |-> BucketApply(self.three_phase_reactive_a, reactive_a),
     three_phase_reactive_b |-> BucketApply(self.three_phase_reactive_b, reactive_b)]

ThreePhaseUpdate(g, self, label) ==
    Put(Put(g, <<label, "a">>,
            [real |-> Stats(self.three_phase_real_a),
             reactive |-> Stats(self.three_phase_reactive_a)]),
        <<label, "b">>,
        [real |-> Stats(self.three_phase_real_b),
         reactive |-> Stats(self.three_phase_reactive_b)])

AllThreePhaseDefault == [n \in {} |-> ThreePhaseDefault]

\* apply_and_update, its effect on self.map
ApplyAndUpdateMap(m, name, real_a, reactive_a, real_b, reactive_b) ==
    LET measurements == IF name \in DOMAIN m THEN m[name] ELSE ThreePhaseDefault
    IN  Put(m, name, ThreePhaseApply(measurements, real_a, reactive_a, real_b, reactive_b))

\* apply_and_update, its effect on the gauges: update reads the map just written
ApplyAndUpdateGauges(g, m, name, real_a, reactive_a, real_b, reactive_b) ==
    ThreePhaseUpdate(
        g, ApplyAndUpdateMap(m, name, real_a, reactive_a, real_b, reactive_b)[name], name)

----------------------------------------------------------------------------
(* listen: the body of the for loop over joined.calculations *)

ZeroTotals == [active_a |-> 0, reactive_a |-> 0, active_b |-> 0, reactive_b |-> 0]

\* the unwraps one entry goes through, in the order the loop body reaches them
DispatchPanics(composite) ==
    IF ~IsSome(composite.calculation_name) THEN TRUE
    ELSE IF ~IsSome(composite.data_product) THEN TRUE
    ELSE AllMeasurementsApplyPanics(Unwrap(composite.data_product))

\* a slip: every entry added to the sums, whatever its variant
AccumulateAnyProduct(t, composite) ==
    LET product == Unwrap(composite.data_product)
        calcs == IF product.kind = "Calculations" THEN product ELSE TP1
        pa == Unwrap(Unwrap(calcs.phase_a).power_calculations)
        pb == Unwrap(Unwrap(calcs.phase_b).power_calculations)
    IN  [active_a   |-> t.active_a + Get(pa.real_power_w),
         reactive_a |-> t.reactive_a + Get(pa.reactive_power_var),
         active_b   |-> t.active_b + Get(pb.real_power_w),
         reactive_b |-> t.reactive_b + Get(pb.reactive_power_var)]

\* let Some(DataProduct::Calculations(calcs)) = ... else continue; then the four +=
Accumulate(t, composite) ==
    LET product == Unwrap(composite.data_product)
    IN  IF product.kind # "Calculations" THEN t
        ELSE LET pa == Unwrap(Unwrap(product.phase_a).power_calculations)
                 pb == Unwrap(Unwrap(product.phase_b).power_calculations)
             IN  [active_a   |-> t.active_a + Get(pa.real_power_w),
                  reactive_a |-> t.reactive_a + Get(pa.reactive_power_var),
                  active_b   |-> t.active_b + Get(pb.real_power_w),
                  reactive_b |-> t.reactive_b + Get(pb.reactive_power_var)]

\* a slip: the combiner called inside the loop, once the first entry is done
EntriesLeftFirstOnly(f, i) == i <= Min(1, Len(f))

\* the for loop has an entry left to take
EntriesLeft(f, i) == i <= Len(f)

----------------------------------------------------------------------------
(* The ingest task: main's loop around listen, one action per step *)

NoFrame == <<>>

Init ==
    /\ pc = "start"
    /\ data = AllMeasurementsNew
    /\ map = AllThreePhaseDefault
    /\ gauges = <<>>
    /\ gauges3 = <<>>
    /\ msg_count = 0
    /\ frame = NoFrame
    /\ idx = 1
    /\ totals = ZeroTotals
    /\ combined = 0
    /\ preData = AllMeasurementsNew
    /\ preMap = AllThreePhaseDefault
    /\ received = 0
    /\ reconnects = 0
    /\ saved = None
    /\ delivered = [n \in Names |-> <<>>]
    /\ response = None
    /\ seen = {}
    /\ framesDecoded = 0
    /\ bkt = BucketDefault
    /\ pushed = <<>>
    /\ rpc = "read"
    /\ current_frame = <<>>
    /\ last_timestamp = None
    /\ frames = <<>>
    /\ frame_count = 0
    /\ sent = <<>>
    /\ rows = <<>>
    /\ dbpc = "recv"
    /\ inserts = <<>>
    /\ decoded = <<>>
    /\ dbReceived = 0

\* listen connects, builds its state and subscribes
ListenStart ==
    /\ pc = "start"
    /\ pc' = "recv"
    /\ data' = AllMeasurementsNew
    /\ map' = AllThreePhaseDefault
    /\ msg_count' = 0
    /\ saved' = None
    /\ UNCHANGED <<gauges, gauges3, frame, idx, totals, combined, preData,
                   preMap, received, reconnects, bkt, pushed, delivered, response,
                   seen, framesDecoded, replayVars, dbVars>>

\* prepare_subscribe or subscribe fails: listen returns the error. The bus may
\* refuse any number of attempts, so the count of failures saturates
ListenStartFails ==
    /\ pc = "start"
    /\ pc' = "sleep"
    /\ reconnects' = Min(reconnects + 1, MaxReconnects)
    /\ UNCHANGED <<data, map, gauges, gauges3, msg_count, frame, idx, totals,
                   combined, preData, preMap, received, saved, bkt, pushed,
                   delivered, response,
                   seen, framesDecoded, replayVars, dbVars>>

\* subscription.recv().await? fails: listen returns, its locals are dropped
RecvFails ==
    /\ pc = "recv"
    /\ reconnects < MaxReconnects
    /\ pc' = "sleep"
    /\ reconnects' = reconnects + 1
    /\ saved' = Some([data |-> data, map |-> map])
    /\ data' = AllMeasurementsNew
    /\ map' = AllThreePhaseDefault
    /\ seen' = {}
    /\ framesDecoded' = 0
    /\ UNCHANGED <<gauges, gauges3, msg_count, frame, idx, totals, combined,
                   preData, preMap, received, bkt, pushed, delivered, response,
                   replayVars, dbVars>>

\* a slip: the error propagated out of main with ?, which ends the process
SleepExits ==
    /\ pc = "sleep"
    /\ pc' = "crashed"
    /\ UNCHANGED <<data, map, gauges, gauges3, msg_count, frame, idx, totals,
                   combined, preData, preMap, received, reconnects, saved, bkt,
                   pushed, delivered, response,
                   seen, framesDecoded, replayVars, dbVars>>

\* main: log the error, sleep 5 seconds, loop
Sleep ==
    /\ pc = "sleep"
    /\ pc' = "start"
    /\ UNCHANGED <<data, map, gauges, gauges3, msg_count, frame, idx, totals,
                   combined, preData, preMap, received, reconnects, saved, bkt,
                   pushed, delivered, response,
                   seen, framesDecoded, replayVars, dbVars>>

\* a slip: the continue dropped, so the zeroed sums reach the combiner
RecvSkippedPushesZero ==
    /\ pc = "recv"
    /\ received < MaxMsgs
    /\ received' = received + 1
    /\ msg_count' = msg_count + 1
    /\ map' = ApplyAndUpdateMap(map, Topic, 0, 0, 0, 0)
    /\ gauges3' = ApplyAndUpdateGauges(gauges3, map, Topic, 0, 0, 0, 0)
    /\ UNCHANGED <<pc, data, gauges, frame, idx, totals, combined, preData,
                   preMap, reconnects, saved, bkt, pushed, delivered, response,
                   seen, framesDecoded, replayVars, dbVars>>

\* a message with no frame, or one that does not decode: continue
RecvSkipped ==
    /\ pc = "recv"
    /\ received < MaxMsgs
    /\ received' = received + 1
    /\ msg_count' = msg_count + 1
    /\ UNCHANGED <<pc, data, map, gauges, gauges3, frame, idx, totals,
                   combined, preData, preMap, reconnects, saved, bkt, pushed,
                   delivered, response,
                   seen, framesDecoded, replayVars, dbVars>>

\* a message that decodes: the four sums start at 0.0 and the for loop starts
RecvFrame ==
    /\ pc = "recv"
    /\ received < MaxMsgs
    /\ received' = received + 1
    /\ \E joined \in Frames :
        /\ frame' = joined
        /\ msg_count' = msg_count + 1
        /\ idx' = 1
        /\ totals' = ZeroTotals
        /\ combined' = 0
        /\ preData' = data
        /\ preMap' = map
        /\ pc' = "dispatch"
    /\ framesDecoded' = framesDecoded + 1
    /\ UNCHANGED <<data, map, gauges, gauges3, reconnects, saved, bkt, pushed,
                   delivered, response, seen, replayVars, dbVars>>

\* one iteration of the for loop: apply, update, accumulate
DispatchEntry ==
    /\ pc = "dispatch"
    /\ EntriesLeft(frame, idx)
    /\ ~DispatchPanics(frame[idx])
    /\ LET composite == frame[idx]
           name == Unwrap(composite.calculation_name)
           applied == AllMeasurementsApply(data, name, Unwrap(composite.data_product))
       IN  /\ data' = AllMeasurementsUpdateData(applied, name)
           /\ gauges' = AllMeasurementsUpdateGauges(gauges, applied, name)
           /\ totals' = Accumulate(totals, composite)
           /\ delivered' = IF IsTwoPhase(composite)
                            THEN [delivered EXCEPT ![name] =
                                     Append(@, Unwrap(composite.data_product))]
                            ELSE delivered
           /\ seen' = seen \cup {name}
    /\ idx' = idx + 1
    /\ UNCHANGED <<pc, map, gauges3, msg_count, frame, combined, preData,
                   preMap, received, reconnects, saved, bkt, pushed, response,
                   framesDecoded, replayVars, dbVars>>

\* one iteration of the for loop unwraps a None: the panic unwinds through
\* listen and main, and the process exits with all of its state
DispatchEntryPanics ==
    /\ pc = "dispatch"
    /\ EntriesLeft(frame, idx)
    /\ DispatchPanics(frame[idx])
    /\ pc' = "crashed"
    /\ data' = AllMeasurementsNew
    /\ map' = AllThreePhaseDefault
    /\ gauges' = <<>>
    /\ gauges3' = <<>>
    /\ saved' = None
    /\ msg_count' = 0
    /\ totals' = ZeroTotals
    /\ combined' = 0
    /\ preData' = AllMeasurementsNew
    /\ preMap' = AllThreePhaseDefault
    /\ delivered' = [n \in Names |-> <<>>]
    /\ response' = None
    /\ seen' = {}
    /\ framesDecoded' = 0
    /\ UNCHANGED <<frame, idx, received, reconnects, bkt, pushed, replayVars,
                   dbVars>>

\* a slip: the sums of a frame filed under the name of its last entry
RollupKeyByStream(f) ==
    IF f = <<>> THEN Topic ELSE Unwrap(f[Len(f)].calculation_name)

\* the key under which the sums of frame f are combined:
\* config.zmq_subscription.clone(), whatever the frame holds
RollupKey(f) == Topic

\* after the for loop: three_phase.apply_and_update(config.zmq_subscription, ...)
Finalize ==
    /\ pc = "dispatch"
    /\ ~EntriesLeft(frame, idx)
    /\ map' = ApplyAndUpdateMap(map, RollupKey(frame), totals.active_a,
                                totals.reactive_a, totals.active_b,
                                totals.reactive_b)
    /\ gauges3' = ApplyAndUpdateGauges(gauges3, map, RollupKey(frame),
                                       totals.active_a, totals.reactive_a,
                                       totals.active_b, totals.reactive_b)
    /\ combined' = combined + 1
    /\ pc' = "recv"
    /\ frame' = NoFrame
    /\ idx' = 1
    /\ totals' = ZeroTotals
    /\ preData' = AllMeasurementsNew
    /\ preMap' = AllThreePhaseDefault
    /\ UNCHANGED <<data, gauges, msg_count, received, reconnects, saved, bkt,
                   pushed, delivered, response,
                   seen, framesDecoded, replayVars, dbVars>>

Next ==
    \/ ListenStart
    \/ ListenStartFails
    \/ RecvFails
    \/ Sleep
    \/ RecvSkipped
    \/ RecvFrame
    \/ DispatchEntry
    \/ DispatchEntryPanics
    \/ Finalize

Spec == Init /\ [][Next]_vars

----------------------------------------------------------------------------
(* The export task: metrics_handler, served by axum on its own tokio task *)

Statistics == {"latest", "peak", "trough", "average"}

\* prometheus::gather followed by TextEncoder::encode: one sample for every
\* statistic of every label set that has been set
TextEncode(g, g3) ==
    {<<c, st, key, g[key][c][st]>> :
        c \in Channels, st \in Statistics, key \in DOMAIN g}
    \cup
    {<<r, st, key, g3[key][r][st]>> :
        r \in {"real", "reactive"}, st \in Statistics, key \in DOMAIN g3}

\* a slip: the handler clears the gauges it has just gathered
ScrapeAndReset ==
    /\ pc # "crashed"
    /\ response' = Some([status |-> 200, body |-> TextEncode(gauges, gauges3)])
    /\ gauges' = <<>>
    /\ gauges3' = <<>>
    /\ UNCHANGED <<pc, data, map, msg_count, frame, idx, totals, combined,
                   preData, preMap, received, reconnects, saved, delivered,
                   bkt, pushed,
                   seen, framesDecoded, replayVars, dbVars>>

\* GET /metrics at any moment of the ingest task: 200 with the encoded
\* gauges, or 500 with an empty body when encoding fails
Scrape ==
    /\ pc # "crashed"
    /\ \E encoded \in BOOLEAN :
        response' = IF encoded
                    THEN Some([status |-> 200, body |-> TextEncode(gauges, gauges3)])
                    ELSE Some([status |-> 500, body |-> {}])
    /\ UNCHANGED <<pc, data, map, gauges, gauges3, msg_count, frame, idx,
                   totals, combined, preData, preMap, received, reconnects,
                   saved, delivered, bkt, pushed,
                   seen, framesDecoded, replayVars, dbVars>>

NextScrape == Next \/ Scrape

SpecScrape == Init /\ [][NextScrape]_vars

----------------------------------------------------------------------------
(* A Bucket on its own: any sequence of pushes *)

PushValues == 1..3

Push ==
    /\ Len(pushed) < MaxPushes
    /\ \E val \in PushValues :
        /\ bkt' = BucketApply(bkt, val)
        /\ pushed' = Append(pushed, val)
    /\ UNCHANGED <<pc, data, map, gauges, gauges3, msg_count, frame, idx,
                   totals, combined, preData, preMap, received, reconnects,
                   saved, delivered, response,
                   seen, framesDecoded, replayVars, dbVars>>

NextBucket == Push

SpecBucket == Init /\ [][NextBucket]_vars

----------------------------------------------------------------------------
(* data-replay: main's row loop, build_frame, build_composite, publishing *)

\* Rows of the dataset that main reads.
MaxRows == 3

RowTimes == 1..2
RowPhases == {"phase_a", "phase_b", "phase_c"}

\* SystemTime::now() when publishing starts, in periods since the epoch
StartTime == 100

\* a CsvRow whose eight scalars are all different and tell time and phase
CsvRow(time, name, phase) ==
    LET k == 3 * time + (CASE phase = "phase_a" -> 0 [] phase = "phase_b" -> 1
                           [] OTHER -> 2)
    IN  [time |-> time, stream_name |-> name, phase |-> phase,
         rms_voltage |-> 10 * k + 1, dc_offset_voltage |-> 10 * k + 2,
         rms_current |-> 10 * k + 3, dc_offset_current |-> 10 * k + 4,
         real_power |-> 10 * k + 8, apparent_power |-> 10 * k + 5,
         reactive_power |-> 10 * k + 7, power_factor |-> 10 * k + 6,
         sequence_number |-> IF time = 1 THEN None ELSE Some(9)]

\* the dataset's rows: those of the first timestamp have no sequence number
CsvRows == {CsvRow(t, n, p) : t \in RowTimes, n \in Names, p \in RowPhases}

Timestamp(seconds) == [seconds |-> seconds, nanos |-> 0]

BuildComposite(row, sequence) ==
    [provenance |->
         Some([utc_time |-> Some(Timestamp(0)),
               generic_sequence_number |->
                   IF IsSome(row.sequence_number) THEN row.sequence_number
                                                  ELSE Some(sequence)]),
     voltage_waveform_calculations_v |->
         Some(WaveformCalculations(row.rms_voltage, row.dc_offset_voltage)),
     current_waveform_calculations_a |->
         Some(WaveformCalculations(row.rms_current, row.dc_offset_current)),
     power_calculations |->
         Some(PowerCalculations(row.real_power, row.apparent_power,
                                row.reactive_power, row.power_factor))]

\* format!("threephase/{}", stream_name)
CalcName(stream_name) == <<"threephase/", stream_name>>

\* a slip: phase_b left out when the group has no phase_b row
BuildEntryNoCopy(stream_name, row_a, phase_b, sequence) ==
    Wrapper(Some(CalcName(stream_name)),
            Some(Calculations(
                Some(BuildComposite(row_a, sequence)),
                IF IsSome(phase_b)
                THEN Some(BuildComposite(Unwrap(phase_b), sequence))
                ELSE None)))

\* the body of build_frame's loop for a stream that has a phase_a row
BuildEntry(stream_name, row_a, phase_b, sequence) ==
    LET row_b == IF IsSome(phase_b) THEN Unwrap(phase_b) ELSE row_a
    IN  Wrapper(Some(CalcName(stream_name)),
                Some(Calculations(Some(BuildComposite(row_a, sequence)),
                                  Some(BuildComposite(row_b, sequence)))))

\* the orders in which a HashMap may iterate over its keys
Orders(keys) ==
    {o \in [1..Cardinality(keys) -> keys] :
        \A a, b \in 1..Cardinality(keys) : a # b => o[a] # o[b]}

\* build_frame with frame_data.iter() yielding the keys in this order
RECURSIVE BuildFrameIn(_, _, _)
BuildFrameIn(frame_data, sequence, order) ==
    IF order = <<>> THEN <<>>
    ELSE LET stream_name == Head(order)
             phase_a == frame_data[stream_name][1]
             phase_b == frame_data[stream_name][2]
             rest == BuildFrameIn(frame_data, sequence, Tail(order))
         IN  IF ~IsSome(phase_a) THEN rest
             ELSE <<BuildEntry(stream_name, Unwrap(phase_a), phase_b, sequence)>>
                  \o rest

BuildFrames(frame_data, sequence) ==
    {BuildFrameIn(frame_data, sequence, o) : o \in Orders(DOMAIN frame_data)}

\* current_frame.entry(name).or_insert((None, None)), then the match on phase
GroupRow(group, row) ==
    LET entry == IF row.stream_name \in DOMAIN group
                 THEN group[row.stream_name] ELSE <<None, None>>
    IN  Put(group, row.stream_name,
            CASE row.phase = "phase_a" -> <<Some(row), entry[2]>>
              [] row.phase = "phase_b" -> <<entry[1], Some(row)>>
              [] OTHER -> entry)


\* the publish loop's rewrite of utc_time in one phase
PhaseWithTime(phase, timestamp) ==
    IF IsSome(phase) /\ IsSome(Unwrap(phase).provenance)
    THEN Some([Unwrap(phase) EXCEPT !.provenance =
                  Some([Unwrap(Unwrap(phase).provenance) EXCEPT
                           !.utc_time = Some(timestamp)])])
    ELSE phase

FrameWithTime(f, timestamp) ==
    [k \in 1..Len(f) |->
        IF IsTwoPhase(f[k])
        THEN LET two_phase == Unwrap(f[k].data_product)
             IN  [f[k] EXCEPT !.data_product =
                     Some([two_phase EXCEPT
                              !.phase_a = PhaseWithTime(two_phase.phase_a, timestamp),
                              !.phase_b = PhaseWithTime(two_phase.phase_b, timestamp)])]
        ELSE f[k]]

\* one iteration of the loop over rdr.deserialize()
ReplayRow ==
    /\ rpc = "read"
    /\ Len(rows) < MaxRows
    /\ \E row \in CsvRows :
        LET flush == /\ IsSome(last_timestamp)
                     /\ row.time # Unwrap(last_timestamp)
                     /\ current_frame # <<>>
        IN  /\ IF flush
               THEN /\ \E built \in BuildFrames(current_frame, frame_count) :
                           frames' = Append(frames, built)
                    /\ frame_count' = frame_count + 1
               ELSE UNCHANGED <<frames, frame_count>>
            /\ current_frame' = GroupRow(IF flush THEN <<>> ELSE current_frame, row)
            /\ last_timestamp' = Some(row.time)
            /\ rows' = Append(rows, row)
    /\ UNCHANGED <<rpc, sent, exporterVars, bucketVars, dbVars>>

\* the rows are exhausted: the last group is built, then the socket is bound
ReplayEndOfFile ==
    /\ rpc = "read"
    /\ IF current_frame # <<>>
       THEN \E built \in BuildFrames(current_frame, frame_count) :
                frames' = Append(frames, built)
       ELSE UNCHANGED frames
    /\ rpc' = "publish"
    /\ UNCHANGED <<current_frame, last_timestamp, frame_count, sent, rows,
                   exporterVars, bucketVars, dbVars>>

\* one iteration of the publish loop: stamp the frame, encode it, send it
ReplayPublish ==
    /\ rpc = "publish"
    /\ Len(sent) < Len(frames)
    /\ sent' = Append(sent, FrameWithTime(frames[Len(sent) + 1],
                                          Timestamp(StartTime + Len(sent))))
    /\ UNCHANGED <<rpc, current_frame, last_timestamp, frames, frame_count,
                   rows, exporterVars, bucketVars, dbVars>>

\* every frame is published: main sleeps for ever
ReplayFinished ==
    /\ rpc = "publish"
    /\ Len(sent) = Len(frames)
    /\ rpc' = "idle"
    /\ UNCHANGED <<current_frame, last_timestamp, frames, frame_count, sent,
                   rows, exporterVars, bucketVars, dbVars>>

\* a row that does not parse, a bind or a send that fails: main returns Err
ReplayFails ==
    /\ rpc \in {"read", "publish"}
    /\ rpc' = "exited"
    /\ UNCHANGED <<current_frame, last_timestamp, frames, frame_count, sent,
                   rows, exporterVars, bucketVars, dbVars>>

NextReplay ==
    \/ ReplayRow
    \/ ReplayEndOfFile
    \/ ReplayPublish
    \/ ReplayFinished
    \/ ReplayFails

SpecReplay == Init /\ [][NextReplay]_vars

----------------------------------------------------------------------------
(* data-db: into_json and the loop of listen *)

\* Messages the storage writer receives.
MaxDbMsgs == 2

\* the unwraps of into_json on one phase of a two-phase entry
DbPhasePanics(phase) ==
    IF ~IsSome(phase) THEN TRUE
    ELSE \/ ~IsSome(Unwrap(phase).power_calculations)
         \/ ~IsSome(Unwrap(phase).current_waveform_calculations_a)
         \/ ~IsSome(Unwrap(phase).voltage_waveform_calculations_v)

\* the unwraps of into_json that one entry goes through
EntryIntoJsonPanics(entry) ==
    IF ~IsSome(entry.data_product) THEN TRUE
    ELSE IF Unwrap(entry.data_product).kind # "Calculations" THEN FALSE
    ELSE IF DbPhasePanics(Unwrap(entry.data_product).phase_a) THEN TRUE
    ELSE IF DbPhasePanics(Unwrap(entry.data_product).phase_b) THEN TRUE
    ELSE ~IsSome(entry.calculation_name)

IntoJsonPanics(f) == \E k \in 1..Len(f) : EntryIntoJsonPanics(f[k])

\* the first loop of into_json: one power scalar summed over the two-phase entries
RECURSIVE ThreePhaseSum(_, _, _)
ThreePhaseSum(f, phase, field) ==
    IF f = <<>> THEN 0
    ELSE LET product == Unwrap(Head(f).data_product)
             rest == ThreePhaseSum(Tail(f), phase, field)
         IN  IF product.kind # "Calculations" THEN rest
             ELSE Get(Unwrap(Unwrap(product[phase]).power_calculations)[field]) + rest

\* the Bucket struct of data-db, filled from one phase
DbBucket(p, three_phase_real, three_phase_reactive) ==
    [rms_current |-> Get(Unwrap(p.current_waveform_calculations_a).rms),
     rms_voltage |-> Get(Unwrap(p.voltage_waveform_calculations_v).rms),
     dc_offset_voltage |-> Get(Unwrap(p.voltage_waveform_calculations_v).dc_offset),
     dc_offset_current |-> Get(Unwrap(p.current_waveform_calculations_a).dc_offset),
     real_power |-> Get(Unwrap(p.power_calculations).real_power_w),
     apparent_power |-> Get(Unwrap(p.power_calculations).apparent_power_va),
     reactive_power |-> Get(Unwrap(p.power_calculations).reactive_power_var),
     power_factor |-> Get(Unwrap(p.power_calculations).power_factor),
     three_phase_real_power |-> three_phase_real,
     three_phase_reactive_power |-> three_phase_reactive]

\* the Calculation struct built from one two-phase entry of frame f
DbCalculation(f, entry) ==
    LET calc == Unwrap(entry.data_product)
    IN  [phase_a |-> DbBucket(Unwrap(calc.phase_a),
                              ThreePhaseSum(f, "phase_a", "real_power_w"),
                              ThreePhaseSum(f, "phase_a", "reactive_power_var")),
         phase_b |-> DbBucket(Unwrap(calc.phase_b),
                              ThreePhaseSum(f, "phase_b", "real_power_w"),
                              ThreePhaseSum(f, "phase_b", "reactive_power_var"))]

\* the second loop of into_json over the first n entries: outside.insert
\* replaces what an earlier entry of the same name put there
RECURSIVE IntoJsonUpTo(_, _)
IntoJsonUpTo(f, n) ==
    IF n = 0 THEN <<>>
    ELSE LET outside == IntoJsonUpTo(f, n - 1)
         IN  IF Unwrap(f[n].data_product).kind # "Calculations" THEN outside
             ELSE Put(outside, Unwrap(f[n].calculation_name), DbCalculation(f, f[n]))

IntoJson(f) == IntoJsonUpTo(f, Len(f))


\* a message with no frame, or one that does not decode: continue
DbRecvSkipped ==
    /\ dbpc = "recv"
    /\ dbReceived < MaxDbMsgs
    /\ dbReceived' = dbReceived + 1
    /\ UNCHANGED <<dbpc, inserts, decoded, exporterVars, bucketVars, replayVars>>

\* a message that decodes: into_json, then one INSERT, which the database
\* may refuse; the error is logged and the loop goes on
DbRecvFrame ==
    /\ dbpc = "recv"
    /\ dbReceived < MaxDbMsgs
    /\ dbReceived' = dbReceived + 1
    /\ \E joined \in Frames, ok \in BOOLEAN :
        /\ ~IntoJsonPanics(joined)
        /\ decoded' = Append(decoded, joined)
        /\ inserts' = Append(inserts, [time |-> dbReceived + 1,
                                       device |-> "bibimbap",
                                       data |-> IntoJson(joined),
                                       ok |-> ok])
    /\ UNCHANGED <<dbpc, exporterVars, bucketVars, replayVars>>

\* a message that decodes and into_json unwraps a None: the panic ends the
\* process before the INSERT
DbRecvFramePanics ==
    /\ dbpc = "recv"
    /\ dbReceived < MaxDbMsgs
    /\ dbReceived' = dbReceived + 1
    /\ \E joined \in Frames :
        /\ IntoJsonPanics(joined)
        /\ decoded' = Append(decoded, joined)
    /\ dbpc' = "exited"
    /\ UNCHANGED <<inserts, exporterVars, bucketVars, replayVars>>

\* subscription.recv() fails: std::process::exit(255)
DbRecvFails ==
    /\ dbpc = "recv"
    /\ dbpc' = "exited"
    /\ UNCHANGED <<inserts, decoded, dbReceived, exporterVars, bucketVars,
                   replayVars>>

NextDb ==
    \/ DbRecvSkipped
    \/ DbRecvFrame
    \/ DbRecvFramePanics
    \/ DbRecvFails

SpecDb == Init /\ [][NextDb]_vars

----------------------------------------------------------------------------
(* What the claims speak of *)

\* the bucket of a rollup key or of a stream that may not be there yet
RollupBucket(m, r) == IF Topic \in DOMAIN m THEN m[Topic][r] ELSE <<>>

StreamBucket(d, name, ph, c) ==
    IF name \in DOMAIN d
    THEN (IF ph = "a" THEN d[name].phase_a[c] ELSE d[name].phase_b[c])
    ELSE <<>>

\* values after one push of val, written without reference to BucketApply
AfterPush(values, val) ==
    LastN(Append(values, val), Min(Len(values) + 1, Capacity))

\* the power scalar of one phase of a two-phase entry
PowerOf(entry, ph, field) ==
    LET calcs == Unwrap(entry.data_product)
        phase == IF ph = "a" THEN Unwrap(calcs.phase_a) ELSE Unwrap(calcs.phase_b)
    IN  Get(Unwrap(phase.power_calculations)[field])

\* the sum of a power scalar over the two-phase entries of a frame
RECURSIVE SumTwoPhase(_, _, _)
SumTwoPhase(f, ph, field) ==
    IF f = <<>> THEN 0
    ELSE (IF IsTwoPhase(Head(f)) THEN PowerOf(Head(f), ph, field) ELSE 0)
         + SumTwoPhase(Tail(f), ph, field)

\* the number of two-phase entries of a frame that are named name
RECURSIVE CountTwoPhase(_, _)
CountTwoPhase(f, name) ==
    IF f = <<>> THEN 0
    ELSE (IF IsTwoPhase(Head(f)) /\ Head(f).calculation_name = Some(name) THEN 1 ELSE 0)
         + CountTwoPhase(Tail(f), name)

\* the loop has an entry in hand; the step that ends the frame
AtEntry == pc = "dispatch" /\ idx <= Len(frame)
FrameEnds == pc = "dispatch" /\ pc' = "recv"

----------------------------------------------------------------------------
(* C1: a malformed entry (name, product, phase or sub-payload absent) is
   skipped: the process does not crash and the loop goes on to the next entry
   of the same frame. *)
C1_MalformedEntrySkipped ==
    [][(AtEntry /\ DispatchPanics(frame[idx]))
         => (pc' = "dispatch" /\ frame' = frame /\ idx' = idx + 1)]_vars

(* C2: when a frame ends, each of the four rollup buckets receives one sample,
   the sum of that phase's real or reactive power over exactly the two-phase
   entries of the frame; nothing of an earlier frame is in the sum. *)
C2_RollupIsFrameSum ==
    [][FrameEnds =>
        /\ Topic \in DOMAIN map'
        /\ map'[Topic].three_phase_real_a =
             AfterPush(RollupBucket(map, "three_phase_real_a"),
                       SumTwoPhase(frame, "a", "real_power_w"))
        /\ map'[Topic].three_phase_reactive_a =
             AfterPush(RollupBucket(map, "three_phase_reactive_a"),
                       SumTwoPhase(frame, "a", "reactive_power_var"))
        /\ map'[Topic].three_phase_real_b =
             AfterPush(RollupBucket(map, "three_phase_real_b"),
                       SumTwoPhase(frame, "b", "real_power_w"))
        /\ map'[Topic].three_phase_reactive_b =
             AfterPush(RollupBucket(map, "three_phase_reactive_b"),
                       SumTwoPhase(frame, "b", "reactive_power_var"))]_vars

\* a frame of two two-phase entries and one of another variant has ended:
\* 38 + 18, 37 + 17, 48 + 28, 47 + 27
C2_Witness ==
    /\ pc = "recv"
    /\ Topic \in DOMAIN map
    /\ map[Topic].three_phase_real_a = <<56>>
    /\ map[Topic].three_phase_reactive_a = <<54>>
    /\ map[Topic].three_phase_real_b = <<76>>
    /\ map[Topic].three_phase_reactive_b = <<74>>
    /\ DOMAIN data = {"s1", "s2"}
    /\ data["s2"].phase_a.real_power = <<18>>

(* C3: apply_and_update runs once per decoded frame, after the registry apply
   of every entry of the frame: never while an entry is left, never twice. *)
C3_CombinerOncePerFrame ==
    /\ [](pc = "dispatch" => combined = 0)
    /\ [][(pc = "dispatch" /\ pc' # "crashed") =>
            IF idx <= Len(frame)
            THEN pc' = "dispatch" /\ idx' = idx + 1 /\ combined' = 0 /\ map' = map
            ELSE idx = Len(frame) + 1 /\ pc' = "recv" /\ combined' = 1]_vars

\* the combiner has run once, after both streams of a frame were applied
C3_Witness ==
    /\ pc = "recv"
    /\ combined = 1
    /\ DOMAIN data = {"s1", "s2"}
    /\ Topic \in DOMAIN map
    /\ Len(map[Topic].three_phase_real_a) = 1

(* C4: after pushes v1..vm a Bucket holds the last min(m, capacity) of them,
   oldest first. *)
C4_BucketKeepsLastN ==
    bkt = LastN(pushed, Min(Len(pushed), Capacity))

\* two more pushes than the capacity, the retained values not all equal
C4_Witness ==
    /\ Len(pushed) = Capacity + 2
    /\ Len(bkt) = Capacity
    /\ bkt[1] # bkt[Len(bkt)]
    /\ pushed[1] # bkt[1]

(* C5: every bucket of the registry and of the rollup holds at most capacity
   samples, and a push onto a full bucket drops exactly the oldest sample. *)
AllBucketsBounded ==
    /\ \A name \in DOMAIN data : \A ph \in Phases : \A c \in Channels :
           Len(StreamBucket(data, name, ph, c)) <= Capacity
    /\ \A key \in DOMAIN map : \A r \in Rollups : Len(map[key][r]) <= Capacity

FullPushDropsOldest ==
    /\ (AtEntry /\ pc' = "dispatch" /\ IsTwoPhase(frame[idx])) =>
         LET name == Unwrap(frame[idx].calculation_name)
         IN  \A ph \in Phases : \A c \in Channels :
                 Len(StreamBucket(data, name, ph, c)) = Capacity =>
                     /\ Len(StreamBucket(data', name, ph, c)) = Capacity
                     /\ SubSeq(StreamBucket(data', name, ph, c), 1, Capacity - 1)
                          = Tail(StreamBucket(data, name, ph, c))
    /\ FrameEnds =>
         \A r \in Rollups :
             Len(RollupBucket(map, r)) = Capacity =>
                 /\ Len(RollupBucket(map', r)) = Capacity
                 /\ SubSeq(RollupBucket(map', r), 1, Capacity - 1)
                      = Tail(RollupBucket(map, r))

C5_BucketsBounded == []AllBucketsBounded /\ [][FullPushDropsOldest]_vars

\* a stream's full bucket and a full rollup bucket have each taken one more push
C5_Witness ==
    /\ pc = "dispatch"
    /\ idx = 2
    /\ frame = <<A1>>
    /\ Len(StreamBucket(preData, "s1", "a", "rms_voltage")) = Capacity
    /\ StreamBucket(data, "s1", "a", "rms_voltage")
         = Append(Tail(StreamBucket(preData, "s1", "a", "rms_voltage")), 11)
    /\ Len(RollupBucket(map, "three_phase_real_a")) = Capacity

(* C6: the registry and the rollup state survive a transport reconnect: the
   listen call that follows a receive failure starts with the streams and the
   bucket contents the failed call had. *)
C6_StateSurvivesReconnect ==
    [][(pc = "start" /\ pc' = "recv" /\ IsSome(saved))
         => (data' = Unwrap(saved).data /\ map' = Unwrap(saved).map)]_vars

(* C7, as claimed: a processed frame grows each rollup bucket, and each channel
   bucket of every stream with a two-phase entry in the frame, by exactly one
   sample (buckets below capacity), never by more. *)
C7_OneSamplePerFrame ==
    [][FrameEnds =>
        /\ \A r \in Rollups :
               Len(RollupBucket(map, r)) < Capacity =>
                   Len(RollupBucket(map', r)) = Len(RollupBucket(map, r)) + 1
        /\ \A name \in Names : \A ph \in Phases : \A c \in Channels :
               (/\ CountTwoPhase(frame, name) >= 1
                /\ Len(StreamBucket(preData, name, ph, c)) < Capacity) =>
                   Len(StreamBucket(data', name, ph, c))
                     = Len(StreamBucket(preData, name, ph, c)) + 1]_vars

(* C7, amended: a processed frame grows each rollup bucket by exactly one
   sample, and each channel bucket of a stream by exactly one sample per
   two-phase entry of that stream in the frame, the window capped at its
   capacity; a stream without a two-phase entry in the frame does not grow. *)
C7_OneSamplePerEntry ==
    [][FrameEnds =>
        /\ \A r \in Rollups :
               Len(RollupBucket(map', r))
                 = Min(Capacity, Len(RollupBucket(map, r)) + 1)
        /\ \A name \in Names : \A ph \in Phases : \A c \in Channels :
               Len(StreamBucket(data', name, ph, c))
                 = Min(Capacity, Len(StreamBucket(preData, name, ph, c))
                                   + CountTwoPhase(frame, name))]_vars

\* a frame that names s1 twice is at its end: s1 grew by two, s2 by nothing
C7_Witness ==
    /\ pc = "dispatch"
    /\ idx = Len(frame) + 1
    /\ CountTwoPhase(frame, "s1") = 2
    /\ \A ph \in Phases : \A c \in Channels :
           /\ StreamBucket(preData, "s1", ph, c) = <<>>
           /\ Len(StreamBucket(data, "s1", ph, c)) = 2
           /\ StreamBucket(data, "s2", ph, c) = StreamBucket(preData, "s2", ph, c)

(* C8: an entry whose product is not the two-phase variant changes the
   contents of no existing stream's buckets, is no error, adds nothing to the
   frame's sums, and the loop goes on to the next entry. *)
C8_OtherVariantNoOp ==
    [][(/\ AtEntry
        /\ IsSome(frame[idx].calculation_name)
        /\ IsSome(frame[idx].data_product)
        /\ ~IsTwoPhase(frame[idx])) =>
           /\ pc' = "dispatch"
           /\ idx' = idx + 1
           /\ frame' = frame
           /\ totals' = totals
           /\ \A name \in DOMAIN data :
                  name \in DOMAIN data' /\ data'[name] = data[name]]_vars

\* an entry of another variant went by for a stream that holds samples
C8_Witness ==
    /\ pc = "dispatch"
    /\ frame = <<A1, Ao>>
    /\ idx = 3
    /\ "s1" \in DOMAIN preData
    /\ StreamBucket(data, "s1", "a", "real_power")
         = Append(StreamBucket(preData, "s1", "a", "real_power"), 18)
    /\ totals.active_a = 18

(* C9: a two-phase entry for a name the registry does not hold creates one
   pair for it, with the entry's sample in each bucket; a two-phase entry for a
   name it holds pushes into that pair, whose earlier samples stay; no other
   name is added or changed. *)
C9_LazyCreation ==
    [][(AtEntry /\ pc' = "dispatch" /\ IsTwoPhase(frame[idx])) =>
         LET name == Unwrap(frame[idx].calculation_name)
         IN  /\ DOMAIN data' = DOMAIN data \cup {name}
             /\ \A other \in DOMAIN data \ {name} : data'[other] = data[other]
             /\ \A ph \in Phases : \A c \in Channels :
                    LET old == StreamBucket(data, name, ph, c)
                        new == StreamBucket(data', name, ph, c)
                    IN  /\ Len(new) = Min(Capacity, Len(old) + 1)
                        /\ SubSeq(new, 1, Len(new) - 1)
                             = LastN(old, Len(new) - 1)]_vars

\* the second two-phase entry for s1 went into the pair the first one created
C9_Witness ==
    /\ pc = "dispatch"
    /\ frame = <<A2, A1>>
    /\ idx = 3
    /\ "s1" \notin DOMAIN preData
    /\ DOMAIN data = DOMAIN preData \cup {"s1"}
    /\ data["s1"].phase_a.real_power = <<38, 18>>
    /\ data["s1"].phase_b.real_power = <<48, 28>>

(* C10: the registry only grows: no step of the process, a transport failure
   included, removes a stream name from it. *)
C10_RegistryOnlyGrows ==
    [][pc' # "crashed" => DOMAIN data \subseteq DOMAIN data']_vars


\* C11: a message with no frame, or whose bytes do not decode, is skipped:
\* the registry, the rollup state and every exported value stay as they were,
\* no rollup sample is pushed, and the loop is again waiting for a message
C11_UndecodableSkipped ==
    [][(received' # received /\ pc' # "dispatch") =>
          /\ pc' = "recv"
          /\ UNCHANGED <<data, map, gauges, gauges3,
                   seen, framesDecoded, replayVars, dbVars>>]_vars

\* two messages in this listen call, one rollup sample: one was skipped
C11_Witness ==
    /\ pc = "recv"
    /\ msg_count = 2
    /\ data # AllMeasurementsNew
    /\ Len(RollupBucket(map, "three_phase_real_a")) = 1

\* the scheduler resumes main after its 5 second sleep, and a bus that is
\* asked again and again does not refuse every attempt
SpecLive == Spec /\ WF_vars(Sleep) /\ SF_vars(ListenStart)

ChannelValue(product, ph, c) ==
    LET phase == IF ph = "a" THEN Unwrap(product.phase_a) ELSE Unwrap(product.phase_b)
        v == Unwrap(phase.voltage_waveform_calculations_v)
        i == Unwrap(phase.current_waveform_calculations_a)
        p == Unwrap(phase.power_calculations)
    IN  CASE c = "rms_voltage" -> Get(v.rms)
          [] c = "dc_offset_voltage" -> Get(v.dc_offset)
          [] c = "rms_current" -> Get(i.rms)
          [] c = "dc_offset_current" -> Get(i.dc_offset)
          [] c = "apparent_power" -> Get(p.apparent_power_va)
          [] c = "power_factor" -> Get(p.power_factor)
          [] c = "reactive_power" -> Get(p.reactive_power_var)
          [] c \in {"real_power", "active_power"} -> Get(p.real_power_w)

\* one channel of one phase over every two-phase entry delivered for a stream
DeliveredValues(name, ph, c) ==
    [k \in 1..Len(delivered[name]) |-> ChannelValue(delivered[name][k], ph, c)]

\* C13: every bucket holds the last min(count, N) values of the two-phase
\* entries delivered for its stream, in delivery order, one sample per entry
C13_BucketsFollowDelivery ==
    \A name \in Names, ph \in Phases, c \in Channels :
        StreamBucket(data, name, ph, c) =
            LastN(DeliveredValues(name, ph, c),
                  Min(Len(delivered[name]), Capacity))


\* the largest and the smallest element of a non-empty sequence of numbers
SeqMax(s) == CHOOSE x \in {s[k] : k \in DOMAIN s} : \A k \in DOMAIN s : s[k] <= x
SeqMin(s) == CHOOSE x \in {s[k] : k \in DOMAIN s} : \A k \in DOMAIN s : x <= s[k]

\* the samples that are in the window after the pushes made so far
Window == LastN(pushed, Min(Len(pushed), Capacity))

\* q is the f64 that holds the mean of the numbers of s
IsMeanOf(q, s) == q.t = "num" /\ q.d > 0 /\ q.n * Len(s) = q.d * SumSeq(s)

\* C14: on a non-empty Bucket latest is the sample pushed last, peak the
\* maximum, trough the minimum and average the mean of the samples in the
\* window (evicted ones do not count); latest of a never-pushed Bucket is 0.0
C14_ReducersOfWindow ==
    IF pushed = <<>>
    THEN Latest(bkt) = Num(0)
    ELSE /\ Latest(bkt) = Num(pushed[Len(pushed)])
         /\ Peak(bkt) = Num(SeqMax(Window))
         /\ Trough(bkt) = Num(SeqMin(Window))
         /\ IsMeanOf(Average(bkt), Window)

\* the largest sample ever pushed has left the window
C14_Witness ==
    /\ Len(pushed) > Capacity
    /\ SeqMax(pushed) > SeqMax(Window)
    /\ Peak(bkt) = Num(SeqMax(Window))
    /\ Latest(bkt) # Num(bkt[1])


\* the two infinities of f64, which no reducer of Bucket produces
NEG_INFINITY == [t |-> "-inf", n |-> 0, d |-> 1]
INFINITY == [t |-> "+inf", n |-> 0, d |-> 1]

\* C15: on an empty Bucket peak is negative infinity and trough is positive
\* infinity
C15_EmptyPeakTroughInfinite ==
    bkt = <<>> => (Peak(bkt) = NEG_INFINITY /\ Trough(bkt) = INFINITY)

\* C16: on a freshly created Bucket average does not crash: it is NaN, not 0
C16_EmptyAverageIsNaN ==
    \A name \in DOMAIN data, ph \in Phases, c \in Channels :
        StreamBucket(data, name, ph, c) = BucketDefault =>
            /\ Average(StreamBucket(data, name, ph, c)) = NaN
            /\ Average(StreamBucket(data, name, ph, c)) # Num(0)

\* update has exported the average of a stream's fresh buckets
C16_Witness ==
    \E name \in DOMAIN data :
        /\ StreamBucket(data, name, "a", "real_power") = BucketDefault
        /\ <<name, "a">> \in DOMAIN gauges
        /\ gauges[<<name, "a">>]["real_power"].average = NaN


\* the 36 exported statistics of one phase of a stream are the reducers of
\* that phase's nine buckets as they are now
StreamExportsCurrent(name, ph) ==
    /\ <<name, ph>> \in DOMAIN gauges
    /\ \A c \in Channels :
           gauges[<<name, ph>>][c] = Stats(StreamBucket(data, name, ph, c))

\* the 8 exported rollup statistics of one phase are the reducers of the two
\* rollup buckets of that phase as they are now
RollupExportsCurrent(ph) ==
    /\ <<Topic, ph>> \in DOMAIN gauges3
    /\ gauges3[<<Topic, ph>>].real =
           Stats(RollupBucket(map, IF ph = "a" THEN "three_phase_real_a"
                                               ELSE "three_phase_real_b"))
    /\ gauges3[<<Topic, ph>>].reactive =
           Stats(RollupBucket(map, IF ph = "a" THEN "three_phase_reactive_a"
                                               ELSE "three_phase_reactive_b"))

\* C17: between frames, for every stream that has received a two-phase entry
\* the exported statistics of each phase equal the reducers of the current
\* buckets, and so do the exported rollup statistics of each phase
C17_ExportsAreReducers ==
    pc = "recv" =>
        /\ \A name \in Names, ph \in Phases :
               delivered[name] # <<>> => StreamExportsCurrent(name, ph)
        /\ \A ph \in Phases :
               gauges3 # <<>> => RollupExportsCurrent(ph)


\* a step in which metrics_handler returns a response
ScrapeServed == response' # response /\ pc' # "crashed"

\* C18: wherever a scrape falls among the steps of the ingest task it is
\* read-only: no bucket, no registry or rollup entry and no exported value
\* changes; the registry and the rollup state change only in steps of listen
C18_ScrapeReadOnly ==
    /\ [][ScrapeServed => UNCHANGED <<data, map, gauges, gauges3>>]_vars
    /\ [][(data' # data \/ map' # map) =>
             (response' = response \/ pc' = "crashed")]_vars
    /\ [][(data' # data \/ map' # map) =>
             (pc = "dispatch" \/ (pc = "recv" /\ pc' = "sleep"))]_vars

\* a scrape served in the middle of a frame, the gauges already set
C18_Witness ==
    /\ pc = "dispatch"
    /\ idx = 2
    /\ Len(frame) = 2
    /\ data # AllMeasurementsNew
    /\ IsSome(response)
    /\ Unwrap(response).status = 200
    /\ Unwrap(response).body = TextEncode(gauges, gauges3)
    /\ gauges # <<>>


\* the sample pushed last into a rollup bucket
LastOf(values) == values[Len(values)]

\* C19: the rollup is keyed by the subscription topic, not by stream name:
\* the rollup state never holds a key other than the topic, it holds exactly
\* that key once a decoded frame has ended, and the sample the frame adds to
\* the single series is the sum over the two-phase entries of all its streams
C19_RollupKeyedByTopic ==
    /\ [](DOMAIN map \subseteq {Topic} /\ Cardinality(DOMAIN map) <= 1)
    /\ [][FrameEnds =>
             /\ DOMAIN map' = {Topic}
             /\ LastOf(map'[Topic].three_phase_real_a) =
                    SumTwoPhase(frame, "a", "real_power_w")
             /\ LastOf(map'[Topic].three_phase_reactive_b) =
                    SumTwoPhase(frame, "b", "reactive_power_var")]_vars

\* two-phase entries of two streams went into one listen call's rollup
C19_Witness ==
    /\ pc = "recv"
    /\ reconnects = 0
    /\ delivered["s1"] # <<>>
    /\ delivered["s2"] # <<>>
    /\ DOMAIN map = {Topic}
    /\ DOMAIN data = {"s1", "s2"}


\* C20: active_power is tracked as real_power is: for every stream and phase
\* the active_power bucket holds the same samples, in the same order, as the
\* real_power bucket
C20_ActiveIsReal ==
    \A name \in DOMAIN data, ph \in Phases :
        StreamBucket(data, name, ph, "active_power") =
            StreamBucket(data, name, ph, "real_power")

\* a stream whose window is full of two different real powers
C20_Witness ==
    \E name \in DOMAIN data :
        LET active == StreamBucket(data, name, "b", "active_power")
        IN  /\ Len(active) = Capacity
            /\ active[1] # active[Len(active)]
            /\ active # StreamBucket(data, name, "b", "apparent_power")


\* both phases of a two-phase entry are there, each with its three sub-payloads
FullyPopulated(entry) ==
    /\ IsSome(entry.calculation_name)
    /\ IsTwoPhase(entry)
    /\ \A phase \in {Unwrap(entry.data_product).phase_a,
                     Unwrap(entry.data_product).phase_b} :
           /\ IsSome(phase)
           /\ IsSome(Unwrap(phase).voltage_waveform_calculations_v)
           /\ IsSome(Unwrap(phase).current_waveform_calculations_a)
           /\ IsSome(Unwrap(phase).power_calculations)

\* the scalar of a dataset row that belongs to a channel
RowValue(row, c) == IF c = "active_power" THEN row.real_power ELSE row[c]

\* ph of the entry carries the values of the row
CarriesRow(entry, ph, row) ==
    \A c \in Channels :
        ChannelValue(Unwrap(entry.data_product), ph, c) = RowValue(row, c)

\* an entry built from a group: phase_a from the stream's phase_a row, phase_b
\* from its phase_b row, or from the phase_a row when there is none
BuiltFromGroup(entry, group) ==
    /\ FullyPopulated(entry)
    /\ LET pair == group[Unwrap(entry.calculation_name)[2]]
       IN  /\ IsSome(pair[1])
           /\ CarriesRow(entry, "a", Unwrap(pair[1]))
           /\ CarriesRow(entry, "b", IF IsSome(pair[2]) THEN Unwrap(pair[2])
                                                        ELSE Unwrap(pair[1]))

\* C21: every entry of every frame the replay tool builds or publishes is
\* two-phase with both phases and their voltage, current and power populated,
\* phase_b being a copy of the phase_a row where the group has no phase_b
\* row; so no such frame makes the exporter or the storage writer unwrap None
C21_ReplayFramesPopulated ==
    /\ [](\A f \in {frames[k] : k \in DOMAIN frames}
                   \cup {sent[k] : k \in DOMAIN sent} :
              /\ \A k \in DOMAIN f : FullyPopulated(f[k]) /\ ~DispatchPanics(f[k])
              /\ ~IntoJsonPanics(f))
    /\ [][frames' # frames =>
             \A k \in DOMAIN frames'[Len(frames')] :
                 BuiltFromGroup(frames'[Len(frames')][k], current_frame)]_vars

\* a published frame of two streams, one of them with phase_a copied to phase_b
C21_Witness ==
    /\ sent # <<>>
    /\ Len(sent[1]) = 2
    /\ \E k \in DOMAIN sent[1] :
           LET product == Unwrap(sent[1][k].data_product)
           IN  ChannelValue(product, "b", "rms_voltage") =
                   ChannelValue(product, "a", "rms_voltage")


\* what the record holds for one phase of a two-phase entry of frame f
PhaseArchived(bucket, f, entry, ph) ==
    /\ \A c \in Channels \ {"active_power"} :
           bucket[c] = ChannelValue(Unwrap(entry.data_product), ph, c)
    /\ bucket.three_phase_real_power = SumTwoPhase(f, ph, "real_power_w")
    /\ bucket.three_phase_reactive_power = SumTwoPhase(f, ph, "reactive_power_var")

\* the record of frame f is keyed by entry name and holds every two-phase entry
RecordOfFrame(record, f) ==
    \A k \in DOMAIN f :
        IsTwoPhase(f[k]) =>
            /\ Unwrap(f[k].calculation_name) \in DOMAIN record
            /\ PhaseArchived(record[Unwrap(f[k].calculation_name)].phase_a, f, f[k], "a")
            /\ PhaseArchived(record[Unwrap(f[k].calculation_name)].phase_b, f, f[k], "b")

\* C22: the storage writer attempts exactly one insert per decoded frame, in
\* arrival order, each record keyed by entry name and holding every two-phase
\* entry's phase statistics with the frame-wide sums; a failed insert leaves
\* the loop running, and a message that does not decode gives no insert
C22_OneInsertPerFrame ==
    /\ [](/\ Len(inserts) = Len(decoded)
          /\ \A i \in DOMAIN inserts : RecordOfFrame(inserts[i].data, decoded[i]))
    /\ [][inserts' # inserts => dbpc' = "recv"]_vars
    /\ [][(dbReceived' # dbReceived /\ decoded' = decoded) =>
             inserts' = inserts]_vars


\* C23: apply pushes one sample into each of the nine buckets of a phase,
\* each from its own field (real power once more for active_power); so the
\* eighteen buckets of a stream all have the same length
C23_NineBucketsInStep ==
    /\ [](\A name \in DOMAIN data : \A ph, ph2 \in Phases : \A c, c2 \in Channels :
              Len(StreamBucket(data, name, ph, c)) =
                  Len(StreamBucket(data, name, ph2, c2)))
    /\ [][(AtEntry /\ pc' = "dispatch" /\ IsTwoPhase(frame[idx])) =>
             \A ph \in Phases : \A c \in Channels :
                 StreamBucket(data', Unwrap(frame[idx].calculation_name), ph, c) =
                     AfterPush(StreamBucket(data, Unwrap(frame[idx].calculation_name),
                                            ph, c),
                               ChannelValue(Unwrap(frame[idx].data_product), ph, c))]_vars

\* between two entries, a stream that two entries have been applied to
C23_Witness ==
    /\ pc = "dispatch"
    /\ idx = 2
    /\ Len(frame) = 2
    /\ \E name \in DOMAIN data : \A ph \in Phases : \A c \in Channels :
           Len(StreamBucket(data, name, ph, c)) = 2


\* the step dispatches an entry whose name this listen call has not seen and
\* whose product is not two-phase
FirstEntryNotTwoPhase ==
    /\ Unwrap(frame[idx].calculation_name) \notin seen
    /\ ~IsTwoPhase(frame[idx])

\* the step puts an empty pair into the registry for the entry's name
EmptyPairInserted ==
    /\ Unwrap(frame[idx].calculation_name) \notin DOMAIN data
    /\ DOMAIN data' = DOMAIN data \cup {Unwrap(frame[idx].calculation_name)}
    /\ data'[Unwrap(frame[idx].calculation_name)] = ConjoinedDefault
    /\ \A other \in DOMAIN data : data'[other] = data[other]

\* C24: update for a name the registry does not hold inserts an empty pair
\* for it and exports nothing in that step; in the loop that is the case
\* exactly when the first entry seen for a name is not two-phase
C24_MissInsertsEmptyPair ==
    [][(AtEntry /\ pc' = "dispatch") =>
          /\ FirstEntryNotTwoPhase <=> EmptyPairInserted
          /\ EmptyPairInserted => gauges' = gauges]_vars

\* s2 came first with another variant: an empty pair, and nothing exported
C24_Witness ==
    /\ pc = "dispatch"
    /\ frame = <<Bo, B1>>
    /\ idx = 2
    /\ "s2" \notin DOMAIN preData
    /\ data["s2"] = ConjoinedDefault
    /\ <<"s2", "a">> \notin DOMAIN gauges


\* C25: the exported statistics of a stream are never those of an empty
\* bucket: no gauge of any stream holds the empty peak, the empty trough, the
\* NaN average or, all four together, the statistics of a fresh Bucket
C25_NoEmptyBucketExported ==
    \A key \in DOMAIN gauges : \A c \in Channels :
        /\ gauges[key][c].peak # Peak(BucketDefault)
        /\ gauges[key][c].trough # Trough(BucketDefault)
        /\ gauges[key][c].average # Average(BucketDefault)
        /\ gauges[key][c] # Stats(BucketDefault)


\* frames of the running listen call whose processing is complete
FramesCompleted == IF pc = "dispatch" THEN framesDecoded - 1 ELSE framesDecoded

\* the frame in hand has no two-phase entry
NothingSummed == \A k \in DOMAIN frame : ~IsTwoPhase(frame[k])

\* C26: every decoded frame, be it empty or without a two-phase entry, pushes
\* one sample into each of the four rollup buckets, 0 when nothing was
\* summed; so the four have one length, min(N, frames of this listen call)
C26_RollupOneSamplePerFrame ==
    /\ [](\A r \in Rollups :
              Len(RollupBucket(map, r)) = Min(Capacity, FramesCompleted))
    /\ [][FrameEnds =>
             \A r \in Rollups :
                 /\ Len(RollupBucket(map', r)) =
                        Min(Capacity, Len(RollupBucket(map, r)) + 1)
                 /\ NothingSummed => LastOf(RollupBucket(map', r)) = 0]_vars

\* a second frame, with nothing to sum, has left a 0 in the rollup
C26_Witness ==
    /\ pc = "recv"
    /\ framesDecoded = 2
    /\ msg_count = 2
    /\ \A r \in Rollups :
           /\ Len(RollupBucket(map, r)) = 2
           /\ LastOf(RollupBucket(map, r)) = 0
           /\ RollupBucket(map, r)[1] # 0


\* what a stream has in the registry and in the gauges
StreamState(d, g, name) ==
    [held |-> name \in DOMAIN d,
     pair |-> IF name \in DOMAIN d THEN d[name] ELSE ConjoinedDefault,
     exported |-> [key \in {k \in DOMAIN g : k[1] = name} |-> g[key]]]

\* C27: dispatching an entry named s leaves every other stream's buckets and
\* exported statistics, the rollup buckets and the rollup statistics as they
\* were; within a listen call the rollup state changes only when a frame ends
C27_DispatchTouchesOneStream ==
    /\ [][(AtEntry /\ pc' = "dispatch") =>
             /\ \A other \in Names \ {Unwrap(frame[idx].calculation_name)} :
                    StreamState(data', gauges', other) =
                        StreamState(data, gauges, other)
             /\ map' = map
             /\ gauges3' = gauges3]_vars
    /\ [][(map' # map \/ gauges3' # gauges3) =>
             (FrameEnds \/ pc' \in {"sleep", "crashed"})]_vars

\* s2's entry was dispatched after s1's: s1 is as its own entry left it
C27_Witness ==
    /\ pc = "dispatch"
    /\ frame = <<A1, B2>>
    /\ idx = 3
    /\ "s1" \notin DOMAIN preData
    /\ data["s1"].phase_a.real_power = <<18>>
    /\ gauges[<<"s1", "a">>]["real_power"].latest = Num(18)
    /\ gauges[<<"s2", "a">>]["real_power"].latest = Num(38)
    /\ map = preMap

====
